---- MODULE Spec2Model ----
(***************************************************************************)
(* Model of generate_temp_kml.py: the NDFD temperature KML generator.      *)
(*                                                                         *)
(* Text (URLs, header values, markup) is a sequence of chunks.  A chunk is *)
(* a piece of the string; in a text that a conversion reads (a parameter   *)
(* value, a header value, a layer name, a URL given to escape) every       *)
(* character the conversion acts on is a chunk of its own.  Conversions    *)
(* (urlencode, lower, escape, XML parsing) work chunk by chunk.            *)
(*                                                                         *)
(* JSON numbers are kept in thousandths (a time in ms is held as us), so   *)
(* that int() is a truncation and not the identity.                        *)
(***************************************************************************)
EXTENDS Integers, Sequences, FiniteSets, TLC

VARIABLES
    pc,              \* position of main(): the stage about to run
    i,               \* loop index of get_working_endpoint / build_image_url
    queried,         \* endpoint candidates queried so far, with the outcome
    base_url,        \* main: base_url
    service_info,    \* main: service_info
    latest_time_ms,  \* main: latest_time_ms
    time_calls,      \* number of calls of get_latest_time
    temp_layer_id,   \* build_image_url: temp_layer_id
    param_sets,      \* build_image_url: param_sets (the dicts are mutated)
    probes,          \* URLs probed by the loop of build_image_url, with the outcome
    image_url,       \* main: image_url
    final_probe,     \* main's own tests of image_url, with the outcome
    files,           \* files written, in order: [name, content]
    status,          \* exit status of the process: "running", 0, 1
    fn,              \* pure-function checks: the function called and its input
    ret              \* pure-function checks: the value returned

vars == <<pc, i, queried, base_url, service_info, latest_time_ms, time_calls,
          temp_layer_id, param_sets, probes, image_url, final_probe, files,
          status, fn, ret>>

mainVars == <<pc, i, queried, base_url, service_info, latest_time_ms, time_calls,
              temp_layer_id, param_sets, probes, image_url, final_probe, files,
              status>>

None == [kind |-> "none"]

(***************************************************************************)
(* Bounds of the model.                                                    *)
(***************************************************************************)
MaxLayers == 2
MaxExtent == 3
MaxUrlLen == 4

(***************************************************************************)
(* Text helpers.                                                           *)
(***************************************************************************)
Contains(text, chunk) == \E k \in 1..Len(text) : text[k] = chunk

\* str.lower(), on the chunks that occur in header values and layer names
LowerChunk(c) ==
    CASE c = "IMAGE" -> "image"
      [] c = "Image" -> "image"
      [] c = "JSON" -> "json"
      [] c = "Text" -> "text"
      [] c = "TEXT" -> "text"
      [] c = "PNG" -> "png"
      [] c = "Temp" -> "temp"
      [] c = "TEMP" -> "temp"
      [] c = "Temperature" -> "temperature"
      [] c = "Max" -> "max"
      [] c = "MAX" -> "max"
      [] c = "Min" -> "min"
      [] c = "MIN" -> "min"
      [] c = "Wind" -> "wind"
      [] c = "Apparent" -> "apparent"
      [] OTHER -> c

lower(text) == [k \in 1..Len(text) |-> LowerChunk(text[k])]

\* 'temp' in "temperature" holds too: substring test on a chunk
HasSub(text, sub) ==
    \E k \in 1..Len(text) :
        \/ text[k] = sub
        \/ sub = "temp" /\ text[k] = "temperature"

(***************************************************************************)
(* Validation probe: test_image_url.                                       *)
(***************************************************************************)
\* What requests.get(image_url, timeout=30) can produce: an exception
\* (timeout, connection failure) or a response with a status code and a
\* content-type header (<<>> when the header is missing or empty).
Timeout == [kind |-> "exc"]
Response(st, ct) == [kind |-> "resp", status |-> st, ctype |-> ct]

StatusCodes == {200, 201, 204, 299, 304, 400, 404, 500}

ContentTypes ==
    { <<>>,
      <<"image", "/", "png">>,
      <<"IMAGE", "/", "PNG">>,
      <<"image", "/", "jpeg">>,
      <<"application", "/", "json">>,
      <<"text", "/", "html">>,
      <<"Text", "/", "xml">>,
      <<"application", "/", "octet-stream">>,
      <<"application", "/", "json", ";", "profile", "=", "image">> }

ImageResponses ==
    {Timeout} \cup {Response(st, ct) : st \in StatusCodes, ct \in ContentTypes}

\* mutant: the check of the content type for an error payload is dropped
test_image_url_status_only(resp) ==
    resp.kind # "exc" /\ resp.status = 200

test_image_url(resp) ==
    IF resp.kind = "exc" THEN FALSE                               \* line 250
    ELSE LET content_type == lower(resp.ctype)                     \* line 239
         IN  IF resp.status = 200 /\ HasSub(content_type, "image")
                THEN TRUE                                          \* line 242
             ELSE IF resp.status = 200
                     /\ (HasSub(content_type, "json") \/ HasSub(content_type, "text"))
                THEN FALSE                                         \* line 246
             ELSE resp.status = 200                                \* line 248

(***************************************************************************)
(* Dicts (insertion ordered) and urllib.parse.urlencode.                   *)
(***************************************************************************)
Item(k, v) == [k |-> k, v |-> v]

HasKey(d, k) == \E n \in 1..Len(d) : d[n].k = k

\* d[k] = v : an existing key keeps its position, a new key goes last
DictSet(d, k, v) ==
    IF HasKey(d, k)
    THEN [n \in 1..Len(d) |-> IF d[n].k = k THEN Item(k, v) ELSE d[n]]
    ELSE Append(d, Item(k, v))

\* {k: v for k, v in params.items() if v != ''}
clean(d) == SelectSeq(d, LAMBDA it : it.v # <<>>)

\* quote_plus on one chunk: reserved characters are percent-encoded
QuoteChunk(c) ==
    CASE c = "," -> "%2C"
      [] c = ":" -> "%3A"
      [] c = "/" -> "%2F"
      [] c = "&" -> "%26"
      [] c = "=" -> "%3D"
      [] c = "?" -> "%3F"
      [] c = "<" -> "%3C"
      [] c = ">" -> "%3E"
      [] c = ";" -> "%3B"
      [] OTHER -> c

quote_plus(text) == [k \in 1..Len(text) |-> QuoteChunk(text[k])]

RECURSIVE urlencode(_)
urlencode(d) ==
    IF d = <<>> THEN <<>>
    ELSE LET pair == <<Head(d).k, "=">> \o quote_plus(Head(d).v)
         IN  IF Len(d) = 1 THEN pair
             ELSE pair \o <<"&">> \o urlencode(Tail(d))

\* str(n) of an integer
str(n) == <<ToString(n)>>

(***************************************************************************)
(* Configuration.                                                          *)
(***************************************************************************)
NDFD_ENDPOINTS ==
    << <<"https", ":", "/", "/", "mapservices.weather.noaa.gov", "/",
         "raster/rest/services/NDFD/NDFD_temp/MapServer">>,
       <<"https", ":", "/", "/", "nowcoast.noaa.gov", "/",
         "arcgis/rest/services/nowcoast/forecast_meteoceanhydro_sfc_ndfd_time/MapServer">>,
       <<"https", ":", "/", "/", "idpgis.ncep.noaa.gov", "/",
         "arcgis/rest/services/NWS_Forecasts_Guidance_Warnings/NDFD_temp/MapServer">> >>

WMS_ENDPOINTS ==
    << [name |-> <<"NDFD WMS">>,
        url |-> <<"https", ":", "/", "/", "digital.weather.gov", "/", "wms.php">>,
        layer |-> <<"temp">>,
        format |-> <<"image", "/", "png">>] >>

OUTPUT_KML == "conus_temp_live.kml"
NETWORK_KML == "network_link.kml"

\* try_wms_service: the GetMap URL that is probed
wms_params ==
    LET wms_config == WMS_ENDPOINTS[1]
    IN  << Item("service", <<"WMS">>),
           Item("version", <<"1.3.0">>),
           Item("request", <<"GetMap">>),
           Item("layers", wms_config.layer),
           Item("styles", <<>>),
           Item("width", <<"800">>),
           Item("height", <<"600">>),
           Item("crs", <<"EPSG", ":", "4326">>),
           Item("bbox", <<"20", ",", "-130", ",", "55", ",", "-60">>),
           Item("format", wms_config.format),
           Item("transparent", <<"true">>) >>

wms_url == WMS_ENDPOINTS[1].url \o <<"?">> \o urlencode(wms_params)

(***************************************************************************)
(* JSON values of a service descriptor.                                    *)
(***************************************************************************)
Absent == [kind |-> "absent"]            \* the key is not in the dict
Null == [kind |-> "null"]                \* JSON null
Scalar == [kind |-> "scalar"]            \* a truthy value that is no dict and no list
Num(us) == [kind |-> "num", us |-> us]   \* a number, in thousandths
OutOfRange == [kind |-> "oor"]           \* a number no datetime can hold
NonNumeric == [kind |-> "str"]           \* a string where a number is expected
List(items) == [kind |-> "list", items |-> items]
TimeInfo(ext) == [kind |-> "dict", timeExtent |-> ext]
IdVal(n) == [kind |-> "int", n |-> n]
Name(text) == [kind |-> "str", text |-> text]
Layer(name, id, ti) == [kind |-> "dict", name |-> name, id |-> id, timeInfo |-> ti]
Descriptor(mapName, ti, layers) ==
    [kind |-> "dict", mapName |-> mapName, timeInfo |-> ti, layers |-> layers]

\* int(x) of a number: truncation towards zero
int(val) == IF val.us >= 0 THEN val.us \div 1000 ELSE -((-val.us) \div 1000)

\* datetime.fromtimestamp(x / 1000.0, tz=timezone.utc) returns (it raises
\* TypeError on a non-number and OverflowError/ValueError out of range)
fromtimestamp_ok(val) == val.kind = "num"

\* int(datetime.now(timezone.utc).timestamp() * 1000), now = [sec, us]
now_ms(now) == now.sec * 1000 + now.us \div 1000

(***************************************************************************)
(* test_service_endpoint.                                                  *)
(***************************************************************************)
ShownLayers == 3

\* the metadata responses: a network error, an HTTP status with a body that
\* is no JSON, or a JSON value
NetworkError == [kind |-> "exc"]
HttpReply(st, body) == [kind |-> "resp", status |-> st, body |-> body]
NotJson == [kind |-> "notjson"]

\* the loop over layers[:3] calls layer.get on each entry
first_layers_ok(layers) ==
    \A k \in 1..Len(layers) : k <= ShownLayers => layers[k].kind = "dict"

test_service_endpoint(resp) ==
    LET failed == [working |-> FALSE, data |-> None]
    IN  IF resp.kind = "exc" THEN failed                      \* requests.get raises
        ELSE IF resp.status >= 400 THEN failed                \* raise_for_status
        ELSE IF resp.body.kind = "notjson" THEN failed        \* resp.json() raises
        ELSE IF resp.body.kind # "dict" THEN failed           \* data.get raises
        ELSE IF resp.body.layers.kind \notin {"absent", "list"} THEN failed  \* len(None)
        ELSE IF resp.body.layers.kind = "list"
                /\ ~first_layers_ok(resp.body.layers.items) THEN failed
        ELSE [working |-> TRUE, data |-> resp.body]

\* service_info.get('layers', [])
layers_of(info) ==
    IF info.layers.kind = "list" THEN info.layers.items ELSE <<>>

(***************************************************************************)
(* get_latest_time.                                                        *)
(***************************************************************************)
Return(v) == [kind |-> "return", v |-> v]
Raise == [kind |-> "raise"]
Continue == [kind |-> "continue"]

\* "time_extent = X.get('timeExtent', []); if len(time_extent) >= 2: ...
\*  return int(end_ms)" on a timeInfo value; has_id is FALSE where the
\* message printed before the return reads a key the layer lacks
extent_outcome(ti, has_id) ==
    IF ti.kind # "dict" THEN Raise                            \* .get on no dict
    ELSE IF ti.timeExtent.kind = "absent" THEN Continue       \* the default []
    ELSE IF ti.timeExtent.kind # "list" THEN Raise            \* len() raises
    ELSE IF Len(ti.timeExtent.items) < 2 THEN Continue
    ELSE LET end_ms == ti.timeExtent.items[2]
         IN  IF ~fromtimestamp_ok(end_ms) THEN Raise
             ELSE IF ~has_id THEN Raise                       \* layer['id']
             ELSE Return(int(end_ms))

\* lines 111-119: the scan of the layers
RECURSIVE layers_outcome(_)
layers_outcome(layers) ==
    IF layers = <<>> THEN Continue
    ELSE LET layer == Head(layers)
         IN  IF layer.kind # "dict" THEN Raise                \* 'timeInfo' in layer
             ELSE IF layer.timeInfo.kind = "absent" THEN layers_outcome(Tail(layers))
             ELSE LET o == extent_outcome(layer.timeInfo, layer.id.kind # "absent")
                  IN  IF o.kind = "continue" THEN layers_outcome(Tail(layers))
                      ELSE o

\* lines 100-119: the body of the try block
time_body(info) ==
    LET time_info == info.timeInfo
        global == IF time_info.kind \in {"absent", "null"} THEN Continue  \* falsy
                  ELSE extent_outcome(time_info, TRUE)
    IN  IF global.kind # "continue" THEN global
        ELSE layers_outcome(layers_of(info))

\* mutant: one step back from the end of the global extent (end - step)
get_latest_time_end_minus_step(info, now) ==
    LET body == time_body(info)
        ti == info.timeInfo
    IN  IF body.kind = "return" /\ ti.kind = "dict" /\ ti.timeExtent.kind = "list"
           /\ Len(ti.timeExtent.items) >= 3 /\ ti.timeExtent.items[3].kind = "num"
        THEN [raised |-> FALSE, v |-> body.v - int(ti.timeExtent.items[3])]
        ELSE IF body.kind = "return" THEN [raised |-> FALSE, v |-> body.v]
        ELSE [raised |-> FALSE, v |-> now_ms(now)]

\* mutant: the except clause is missing
get_latest_time_no_except(info, now) ==
    LET body == time_body(info)
    IN  IF body.kind = "return" THEN [raised |-> FALSE, v |-> body.v]
        ELSE IF body.kind = "raise" THEN [raised |-> TRUE, v |-> 0]
        ELSE [raised |-> FALSE, v |-> now_ms(now)]

\* mutant: the fallback is truncated down to a multiple of 3 hours
get_latest_time_truncated(info, now) ==
    LET body == time_body(info)
        ms == now_ms(now)
    IN  IF body.kind = "return" THEN [raised |-> FALSE, v |-> body.v]
        ELSE [raised |-> FALSE, v |-> ms - (ms % (3 * 60 * 60 * 1000))]

\* mutant: the clock is read whatever the descriptor holds
get_latest_time_always_now(info, now) ==
    [raised |-> FALSE, v |-> now_ms(now)]

get_latest_time(info, now) ==
    LET body == time_body(info)
    IN  IF body.kind = "return" THEN [raised |-> FALSE, v |-> body.v]
        ELSE [raised |-> FALSE, v |-> now_ms(now)]   \* lines 121-124 and 126-129

(***************************************************************************)
(* build_image_url.                                                        *)
(***************************************************************************)
\* lines 136-143: the first layer whose name holds 'temp' and neither 'max'
\* nor 'min' gives temp_layer_id; name.lower() raises on a name that is no string
RECURSIVE select_layer_from(_)
select_layer_from(layers) ==
    IF layers = <<>> THEN Return(0)
    ELSE LET layer == Head(layers)
         IN  IF layer.kind # "dict" THEN Raise                 \* layer.get
             ELSE IF layer.name.kind \notin {"absent", "str"} THEN Raise  \* .lower()
             ELSE LET name == IF layer.name.kind = "absent" THEN <<>>
                              ELSE lower(layer.name.text)
                  IN  IF HasSub(name, "temp") /\ ~HasSub(name, "max")
                         /\ ~HasSub(name, "min")
                      THEN Return(IF layer.id.kind = "int" THEN layer.id.n ELSE 0)
                      ELSE select_layer_from(Tail(layers))

select_layer(info) == select_layer_from(layers_of(info))

\* lines 146-201
make_param_sets(layer_id) ==
    LET show == <<"show", ":", ToString(layer_id)>>
        conus == <<"-130", ",", "20", ",", "-60", ",", "55">>
        size == <<"800", ",", "600">>
    IN  << << Item("bbox", conus), Item("size", size), Item("format", <<"png32">>),
              Item("f", <<"image">>), Item("layers", show),
              Item("imageSR", <<"4326">>), Item("bboxSR", <<"4326">>),
              Item("transparent", <<"true">>), Item("dynamicLayers", <<>>),
              Item("layerDefs", <<>>), Item("mapScale", <<>>),
              Item("rotation", <<>>), Item("datumTransformations", <<>>),
              Item("layerTimeOptions", <<>>), Item("gdbVersion", <<>>),
              Item("historicMoment", <<>>), Item("mapRangeValues", <<>>),
              Item("layerRangeValues", <<>>), Item("layerParameterValues", <<>>) >>,
           << Item("bbox", conus), Item("size", size), Item("format", <<"png">>),
              Item("f", <<"image">>), Item("layers", show),
              Item("imageSR", <<"4326">>), Item("bboxSR", <<"4326">>),
              Item("transparent", <<"false">>) >>,
           << Item("bbox", conus), Item("size", size), Item("format", <<"jpg">>),
              Item("f", <<"image">>), Item("layers", show),
              Item("imageSR", <<"4326">>), Item("bboxSR", <<"4326">>) >>,
           << Item("bbox", <<"-14465442.4", ",", "2273030.9", ",", "-6679169.4",
                             ",", "7361866.1">>),
              Item("size", size), Item("format", <<"png">>),
              Item("f", <<"image">>), Item("layers", show),
              Item("imageSR", <<"3857">>), Item("bboxSR", <<"3857">>),
              Item("transparent", <<"true">>) >> >>

NumParamSets == 4
TimedSets == 3
FallbackSet == 2

\* "if i < 3 and time_ms and time_ms > 0: params['time'] = str(int(time_ms))"
\* with j = i + 1
\* mutant: the time is added to every parameter set, the fourth included
with_time_every_set(params, j, time_ms) ==
    IF time_ms # 0 /\ time_ms > 0
    THEN DictSet(params, "time", str(time_ms))
    ELSE params

with_time(params, j, time_ms) ==
    IF j <= TimedSets /\ time_ms # 0 /\ time_ms > 0
    THEN DictSet(params, "time", str(time_ms))
    ELSE params

\* f"{base_url}/export?" + urllib.parse.urlencode(clean_params)
export_url(base, params) ==
    base \o <<"/export">> \o <<"?">> \o urlencode(clean(params))

\* mutant: the fallback is the first parameter set
fallback_url_first(base, sets, time_ms) ==
    export_url(base, with_time(sets[1], 1, time_ms))

\* mutant: the fallback is built against the first configured endpoint
fallback_url_first_endpoint(base, sets, time_ms) ==
    export_url(NDFD_ENDPOINTS[1], with_time(sets[FallbackSet], 1, time_ms))

\* mutant: the fallback is the minimal set without its time parameter
fallback_url_no_time(base, sets, time_ms) ==
    export_url(base, SelectSeq(sets[FallbackSet], LAMBDA it : it.k # "time"))

\* lines 222-227 (the time condition of the fallback has no "i < 3" part)
fallback_url(base, sets, time_ms) ==
    export_url(base, with_time(sets[FallbackSet], 1, time_ms))

(***************************************************************************)
(* create_kml and create_network_link_kml.                                 *)
(***************************************************************************)
\* str.replace(old, new) with old a single character
RECURSIVE replace_range(_, _, _, _, _)
replace_range(text, old, new, lo, hi) ==
    IF lo > hi THEN <<>>
    ELSE IF lo = hi THEN (IF text[lo] = old THEN new ELSE <<text[lo]>>)
    ELSE LET mid == (lo + hi) \div 2
         IN  replace_range(text, old, new, lo, mid)
             \o replace_range(text, old, new, mid + 1, hi)

replace(text, old, new) == replace_range(text, old, new, 1, Len(text))

\* mutant: "&" is replaced last, after the entities were put in
escape_amp_last(text) ==
    replace(replace(replace(text, ">", <<"&", "gt", ";">>),
                    "<", <<"&", "lt", ";">>),
            "&", <<"&", "amp", ";">>)

\* xml.sax.saxutils.escape: "&" first, then ">" and "<"
escape(text) ==
    replace(replace(replace(text, "&", <<"&", "amp", ";">>),
                    ">", <<"&", "gt", ";">>),
            "<", <<"&", "lt", ";">>)

Pad2(n) == IF n < 10 THEN "0" \o ToString(n) ELSE ToString(n)

\* dt.strftime("%Y-%m-%d %H:%M UTC"); the date is given as the day number
strftime(ms) ==
    LET day == ms \div 86400000
        rest == ms % 86400000
    IN  <<"day ", ToString(day), " ", Pad2(rest \div 3600000), ":",
          Pad2((rest % 3600000) \div 60000), " UTC">>

\* mutant: the box is given in the axis order of the WMS request (lat, lon)
create_kml_wms_axes(url, timestamp_ms, service_name) ==
    [name |-> <<"CONUS Temperature - ">> \o strftime(timestamp_ms),
     description |-> <<"Live ">> \o service_name
         \o <<" temperature data for Continental United States. Updates every 30 minutes.">>,
     overlay_description |-> <<"Current Temperature - Updated", ":", " ">>
         \o strftime(timestamp_ms),
     href |-> escape(url),
     refreshInterval |-> 1800,
     north |-> -60, south |-> -130, east |-> 55, west |-> 20]

\* the document, as the raw markup put into each element that is filled in
create_kml(url, timestamp_ms, service_name) ==
    LET time_str == strftime(timestamp_ms)
        safe_image_url == escape(url)
    IN  [name |-> <<"CONUS Temperature - ">> \o time_str,
         description |-> <<"Live ">> \o service_name
             \o <<" temperature data for Continental United States. Updates every 30 minutes.">>,
         overlay_description |-> <<"Current Temperature - Updated", ":", " ">> \o time_str,
         href |-> safe_image_url,
         refreshInterval |-> 1800,
         north |-> 55, south |-> 20, east |-> -60, west |-> -130]

create_network_link_kml(github_username, repo_name) ==
    [href |-> <<"https", ":", "/", "/">> \o github_username
              \o <<".github.io", "/">> \o repo_name \o <<"/", OUTPUT_KML>>,
     refreshInterval |-> 1800]

\* What an XML parser makes of the raw character data of an element: "<"
\* opens markup, "&" must start one of the predefined entity references.
Entity(name) ==
    CASE name = "amp" -> "&"
      [] name = "lt" -> "<"
      [] name = "gt" -> ">"
      [] name = "quot" -> "\""
      [] name = "apos" -> "'"
      [] OTHER -> ""

\* position k of the raw text starts an entity reference that is complete
EntityAt(raw, k) ==
    /\ raw[k] = "&"
    /\ k + 2 <= Len(raw)
    /\ Entity(raw[k + 1]) # ""
    /\ raw[k + 2] = ";"

\* the parsed text of positions lo..hi: an entity reference gives its
\* character, its name and its ";" give nothing (the range is halved, the
\* pieces are joined)
RECURSIVE DecodeRange(_, _, _)
DecodeRange(raw, lo, hi) ==
    IF lo > hi THEN <<>>
    ELSE IF lo = hi
         THEN IF (lo > 1 /\ EntityAt(raw, lo - 1)) \/ (lo > 2 /\ EntityAt(raw, lo - 2))
              THEN <<>>
              ELSE IF raw[lo] = "&" THEN <<Entity(raw[lo + 1])>>
              ELSE <<raw[lo]>>
    ELSE LET mid == (lo + hi) \div 2
         IN  DecodeRange(raw, lo, mid) \o DecodeRange(raw, mid + 1, hi)

parse_text(raw) ==
    IF \E k \in 1..Len(raw) : raw[k] = "<" \/ (raw[k] = "&" /\ ~EntityAt(raw, k))
    THEN [ok |-> FALSE, text |-> <<>>]
    ELSE [ok |-> TRUE, text |-> DecodeRange(raw, 1, Len(raw))]

(***************************************************************************)
(* The inputs of a run: what the remote services answer, and the clock.    *)
(***************************************************************************)
RECURSIVE SeqsUpTo(_, _)
SeqsUpTo(S, n) ==
    IF n = 0 THEN {<<>>}
    ELSE LET shorter == SeqsUpTo(S, n - 1)
         IN  shorter \cup {Append(q, x) : q \in shorter, x \in S}

Extent(items) == TimeInfo(List(items))

PipelineLayers ==
    { Layer(Name(<<"Temperature">>), IdVal(1), Absent),
      Layer(Name(<<"Max", " ", "Temp">>), IdVal(2), Extent(<<Num(0), Num(2000000)>>)),
      Layer(Null, IdVal(3), Absent),
      Layer(Absent, Absent, Extent(<<Num(0), Num(3000500)>>)) }

PipelineTimeInfos ==
    { Absent, Scalar,
      Extent(<<Num(0), Num(1000000), Num(500000)>>),
      Extent(<<Num(0), Num(0)>>),
      Extent(<<Num(0), OutOfRange>>) }

PipelineDescriptors ==
    { Descriptor(Name(<<"NDFD_temp">>), ti, ls) :
        ti \in PipelineTimeInfos,
        ls \in {Absent, Null} \cup {List(q) : q \in SeqsUpTo(PipelineLayers, MaxLayers)} }
    \cup {Descriptor(Absent, Absent, Absent),
          Descriptor(Name(<<"Temp ", "&", " Wind">>), Absent, Absent)}

MetadataResponses ==
    {NetworkError, HttpReply(503, NotJson), HttpReply(200, NotJson), HttpReply(200, Scalar)}
    \cup {HttpReply(200, d) : d \in PipelineDescriptors}

PipelineImageResponses ==
    { Timeout,
      Response(200, <<"image", "/", "png">>),
      Response(200, <<"application", "/", "json">>),
      Response(200, <<>>),
      Response(404, <<"text", "/", "html">>) }

\* the clock: seconds and microseconds since the epoch
Nows == { [sec |-> 3 * 60 * 60, us |-> 0], [sec |-> 4 * 60 * 60 + 61, us |-> 999999] }

(***************************************************************************)
(* main(): one action for each stage, split at the network calls.          *)
(***************************************************************************)
NoFn == fn = None /\ ret = None

Init ==
    /\ pc = "resolve"
    /\ i = 1
    /\ queried = <<>>
    /\ base_url = <<>>
    /\ service_info = None
    /\ latest_time_ms = 0
    /\ time_calls = 0
    /\ temp_layer_id = 0
    /\ param_sets = <<>>
    /\ probes = <<>>
    /\ image_url = <<>>
    /\ final_probe = <<>>
    /\ files = <<>>
    /\ status = "running"
    /\ NoFn

\* an exception reaches main's handler: return False, exit(1)
Abort == pc' = "failed" /\ status' = "failure"

NumCandidates == Len(NDFD_ENDPOINTS) + Len(WMS_ENDPOINTS)

\* mutant: the loop does not stop at the first working endpoint
QueryEndpoint_no_return ==
    /\ pc = "resolve"
    /\ \E resp \in MetadataResponses :
         LET r == test_service_endpoint(resp)
         IN  /\ queried' = Append(queried, [candidate |-> i, working |-> r.working])
             /\ IF r.working /\ i = Len(NDFD_ENDPOINTS)
                THEN /\ base_url' = NDFD_ENDPOINTS[i]
                     /\ service_info' = r.data
                     /\ pc' = "time"
                     /\ i' = i
                ELSE IF i < Len(NDFD_ENDPOINTS)
                THEN /\ i' = i + 1
                     /\ IF r.working
                        THEN base_url' = NDFD_ENDPOINTS[i] /\ service_info' = r.data
                        ELSE UNCHANGED <<base_url, service_info>>
                     /\ UNCHANGED pc
                ELSE /\ pc' = "wms"
                     /\ UNCHANGED <<base_url, service_info, i>>
    /\ UNCHANGED <<latest_time_ms, time_calls, temp_layer_id, param_sets, probes,
                   image_url, final_probe, files, status, fn, ret>>

\* get_working_endpoint, lines 83-87: one metadata query
QueryEndpoint ==
    /\ pc = "resolve"
    /\ \E resp \in MetadataResponses :
         LET r == test_service_endpoint(resp)
         IN  /\ queried' = Append(queried, [candidate |-> i, working |-> r.working])
             /\ IF r.working
                THEN /\ base_url' = NDFD_ENDPOINTS[i]
                     /\ service_info' = r.data
                     /\ pc' = "time"
                     /\ i' = i
                ELSE IF i < Len(NDFD_ENDPOINTS)
                THEN /\ i' = i + 1
                     /\ UNCHANGED <<base_url, service_info, pc>>
                ELSE /\ pc' = "wms"
                     /\ UNCHANGED <<base_url, service_info, i>>
    /\ UNCHANGED <<latest_time_ms, time_calls, temp_layer_id, param_sets, probes,
                   image_url, final_probe, files, status, fn, ret>>

\* line 93: {'mapName': wms_name, 'layers': [], 'wms': True}
wms_service_info ==
    [kind |-> "dict", mapName |-> Name(WMS_ENDPOINTS[1].name), timeInfo |-> Absent,
     layers |-> List(<<>>), wms |-> TRUE]

\* mutant: the WMS address is returned whether or not its probe was accepted
TryWms_unchecked ==
    /\ pc = "wms"
    /\ \E resp \in PipelineImageResponses :
         LET ok == test_image_url(resp)
         IN  /\ queried' = Append(queried, [candidate |-> NumCandidates, working |-> ok])
             /\ base_url' = wms_url
             /\ service_info' = wms_service_info
             /\ pc' = "time"
             /\ UNCHANGED status
    /\ UNCHANGED <<i, latest_time_ms, time_calls, temp_layer_id, param_sets, probes,
                   image_url, final_probe, files, fn, ret>>

\* get_working_endpoint, lines 89-95, with try_wms_service
TryWms ==
    /\ pc = "wms"
    /\ \E resp \in PipelineImageResponses :
         LET ok == test_image_url(resp)
         IN  /\ queried' = Append(queried, [candidate |-> NumCandidates, working |-> ok])
             /\ IF ok
                THEN /\ base_url' = wms_url
                     /\ service_info' = wms_service_info
                     /\ pc' = "time"
                     /\ UNCHANGED status
                ELSE /\ Abort
                     /\ UNCHANGED <<base_url, service_info>>
    /\ UNCHANGED <<i, latest_time_ms, time_calls, temp_layer_id, param_sets, probes,
                   image_url, final_probe, files, fn, ret>>

\* main, line 366
ResolveTime ==
    /\ pc = "time"
    /\ \E now \in Nows :
         LET r == get_latest_time(service_info, now)
         IN  IF r.raised
             THEN Abort /\ UNCHANGED latest_time_ms
             ELSE /\ latest_time_ms' = r.v
                  /\ pc' = "layer"
                  /\ UNCHANGED status
    /\ time_calls' = time_calls + 1
    /\ UNCHANGED <<i, queried, base_url, service_info, temp_layer_id, param_sets,
                   probes, image_url, final_probe, files, fn, ret>>

\* build_image_url, lines 133-201
SelectLayer ==
    /\ pc = "layer"
    /\ LET r == select_layer(service_info)
       IN  IF r.kind = "raise"
           THEN Abort /\ UNCHANGED <<temp_layer_id, param_sets, i>>
           ELSE /\ temp_layer_id' = r.v
                /\ param_sets' = make_param_sets(r.v)
                /\ i' = 1
                /\ pc' = "search"
                /\ UNCHANGED status
    /\ UNCHANGED <<queried, base_url, service_info, latest_time_ms, time_calls,
                   probes, image_url, final_probe, files, fn, ret>>

\* mutant: the loop goes on after a parameter set was accepted
ProbeParamSet_no_return ==
    /\ pc = "search"
    /\ i <= NumParamSets
    /\ \E resp \in PipelineImageResponses :
         LET params == with_time(param_sets[i], i, latest_time_ms)
             test_url == export_url(base_url, params)
             ok == test_image_url(resp)
         IN  /\ param_sets' = [param_sets EXCEPT ![i] = params]
             /\ probes' = Append(probes, [url |-> test_url, set |-> i, ok |-> ok])
             /\ IF ok /\ i = NumParamSets
                THEN image_url' = test_url /\ pc' = "final" /\ UNCHANGED i
                ELSE /\ i' = i + 1
                     /\ IF ok THEN image_url' = test_url ELSE UNCHANGED image_url
                     /\ UNCHANGED pc
    /\ UNCHANGED <<queried, base_url, service_info, latest_time_ms, time_calls,
                   temp_layer_id, final_probe, files, status, fn, ret>>

\* build_image_url, lines 203-219: one turn of the loop
ProbeParamSet ==
    /\ pc = "search"
    /\ i <= NumParamSets
    /\ \E resp \in PipelineImageResponses :
         LET params == with_time(param_sets[i], i, latest_time_ms)
             test_url == export_url(base_url, params)
             ok == test_image_url(resp)
         IN  /\ param_sets' = [param_sets EXCEPT ![i] = params]
             /\ probes' = Append(probes, [url |-> test_url, set |-> i, ok |-> ok])
             /\ IF ok
                THEN image_url' = test_url /\ pc' = "final" /\ UNCHANGED i
                ELSE i' = i + 1 /\ UNCHANGED <<image_url, pc>>
    /\ UNCHANGED <<queried, base_url, service_info, latest_time_ms, time_calls,
                   temp_layer_id, final_probe, files, status, fn, ret>>

\* build_image_url, lines 221-227: every parameter set was rejected
Fallback ==
    /\ pc = "search"
    /\ i > NumParamSets
    /\ param_sets' = [param_sets EXCEPT
                        ![FallbackSet] = with_time(param_sets[FallbackSet], 1, latest_time_ms)]
    /\ image_url' = fallback_url(base_url, param_sets, latest_time_ms)
    /\ pc' = "final"
    /\ UNCHANGED <<i, queried, base_url, service_info, latest_time_ms, time_calls,
                   temp_layer_id, probes, final_probe, files, status, fn, ret>>

\* main, lines 375-377: the test of the chosen URL changes nothing but a message
\* mutant: main probes the chosen URL again after a rejection
TestFinal_retry ==
    /\ pc = "final"
    /\ \E resp \in PipelineImageResponses :
         /\ final_probe' = Append(final_probe,
                                  [url |-> image_url, ok |-> test_image_url(resp)])
         /\ pc' = IF test_image_url(resp) \/ Len(final_probe) >= 1
                  THEN "write_overlay" ELSE "final"
    /\ UNCHANGED <<i, queried, base_url, service_info, latest_time_ms, time_calls,
                   temp_layer_id, param_sets, probes, image_url, files, status, fn, ret>>

TestFinal ==
    /\ pc = "final"
    /\ \E resp \in PipelineImageResponses :
         final_probe' = Append(final_probe,
                               [url |-> image_url, ok |-> test_image_url(resp)])
    /\ pc' = "write_overlay"
    /\ UNCHANGED <<i, queried, base_url, service_info, latest_time_ms, time_calls,
                   temp_layer_id, param_sets, probes, image_url, files, status, fn, ret>>

\* service_info.get('mapName', 'NDFD')
service_name_of(info) ==
    IF info.mapName.kind = "absent" THEN <<"NDFD">> ELSE info.mapName.text

\* main, lines 380-383
WriteOverlay ==
    /\ pc = "write_overlay"
    /\ files' = Append(files,
                       [name |-> OUTPUT_KML,
                        content |-> create_kml(image_url, latest_time_ms,
                                               service_name_of(service_info))])
    /\ pc' = "write_pointer"
    /\ UNCHANGED <<i, queried, base_url, service_info, latest_time_ms, time_calls,
                   temp_layer_id, param_sets, probes, image_url, final_probe, status,
                   fn, ret>>

\* main, lines 389-406, and exit(0)
WritePointer ==
    /\ pc = "write_pointer"
    /\ files' = Append(files,
                       [name |-> NETWORK_KML,
                        content |-> create_network_link_kml(<<"jeandeauxmail-cell">>,
                                                            <<"temperaturetest">>)])
    /\ pc' = "done"
    /\ status' = "success"
    /\ UNCHANGED <<i, queried, base_url, service_info, latest_time_ms, time_calls,
                   temp_layer_id, param_sets, probes, image_url, final_probe, fn, ret>>

Next ==
    \/ QueryEndpoint
    \/ TryWms
    \/ ResolveTime
    \/ SelectLayer
    \/ ProbeParamSet
    \/ Fallback
    \/ TestFinal
    \/ WriteOverlay
    \/ WritePointer

Spec == Init /\ [][Next]_vars

(***************************************************************************)
(* Specifications of the functions taken alone: the input is drawn in the  *)
(* initial state, the one action calls the function.                       *)
(***************************************************************************)
MainIdle ==
    /\ pc = "idle"
    /\ i = 0
    /\ queried = <<>>
    /\ base_url = <<>>
    /\ service_info = None
    /\ latest_time_ms = 0
    /\ time_calls = 0
    /\ temp_layer_id = 0
    /\ param_sets = <<>>
    /\ probes = <<>>
    /\ image_url = <<>>
    /\ final_probe = <<>>
    /\ files = <<>>
    /\ status = "running"

Called == ret.kind = "value"

\* ---- test_image_url ----
InitProbe ==
    /\ MainIdle
    /\ \E resp \in ImageResponses : fn = [name |-> "test_image_url", resp |-> resp]
    /\ ret = None

CallTestImageUrl ==
    /\ fn.name = "test_image_url"
    /\ ret = None
    /\ ret' = [kind |-> "value", v |-> test_image_url(fn.resp)]
    /\ UNCHANGED <<mainVars, fn>>

NextProbe == CallTestImageUrl

SpecProbe == InitProbe /\ [][NextProbe]_vars

\* ---- get_latest_time ----
EndValues == {Num(0), Num(1000000), Num(1000500), OutOfRange, NonNumeric}

\* [start, end, step, ...]: the extents of up to MaxExtent entries
Extents ==
    { e \in SeqsUpTo(EndValues \cup {Num(500000)}, MaxExtent) :
        \A k \in 1..Len(e) :
            /\ k = 1 => e[k] = Num(0)
            /\ k = 2 => e[k] \in EndValues
            /\ k >= 3 => e[k] = Num(500000) }

TimeInfos ==
    {Absent, Null, Scalar, TimeInfo(Absent), TimeInfo(Null)}
    \cup {Extent(e) : e \in Extents}

TimeLayers ==
    { Layer(Name(<<"Temperature">>), id, ti) :
        id \in {Absent, IdVal(1)},
        ti \in { Absent, Null, TimeInfo(Absent), Extent(<<Num(0)>>),
                 Extent(<<Num(0), Num(2000000)>>), Extent(<<Num(0), Num(3000500)>>),
                 Extent(<<Num(0), OutOfRange>>) } }

TimeDescriptors ==
    { Descriptor(Absent, ti, ls) :
        ti \in TimeInfos,
        ls \in {Absent} \cup {List(q) : q \in SeqsUpTo(TimeLayers, MaxLayers)} }

InitTime ==
    /\ MainIdle
    /\ \E d \in TimeDescriptors, now \in Nows :
         fn = [name |-> "get_latest_time", info |-> d, now |-> now]
    /\ ret = None

CallGetLatestTime ==
    /\ fn.name = "get_latest_time"
    /\ ret = None
    /\ LET r == get_latest_time(fn.info, fn.now)
       IN  ret' = [kind |-> "value", raised |-> r.raised, v |-> r.v]
    /\ UNCHANGED <<mainVars, fn>>

NextTime == CallGetLatestTime

SpecTime == InitTime /\ [][NextTime]_vars

\* ---- create_kml ----
UrlChunks == {"&", "<", ">", ";", "amp", "lt", "x"}

InitKml ==
    /\ MainIdle
    /\ \E u \in SeqsUpTo(UrlChunks, MaxUrlLen) :
         fn = [name |-> "create_kml", url |-> u, timestamp_ms |-> 1000,
               service_name |-> <<"NDFD">>]
    /\ ret = None

CallCreateKml ==
    /\ fn.name = "create_kml"
    /\ ret = None
    /\ ret' = [kind |-> "value",
               doc |-> create_kml(fn.url, fn.timestamp_ms, fn.service_name)]
    /\ UNCHANGED <<mainVars, fn>>

NextKml == CallCreateKml

SpecKml == InitKml /\ [][NextKml]_vars

\* ---- main, as a function of what the services answer and of the clock ----
\* env = [meta: the answer of each MapServer candidate, wms: the answer to
\* the WMS probe, search: the answer to the probe of each parameter set]
resolve_endpoint(env) ==
    LET working == {k \in 1..Len(NDFD_ENDPOINTS) : test_service_endpoint(env.meta[k]).working}
    IN  IF working # {}
        THEN LET k == CHOOSE c \in working : \A j \in working : c <= j
             IN  [ok |-> TRUE, candidate |-> k, base |-> NDFD_ENDPOINTS[k],
                  info |-> test_service_endpoint(env.meta[k]).data]
        ELSE IF test_image_url(env.wms)
        THEN [ok |-> TRUE, candidate |-> NumCandidates, base |-> wms_url,
              info |-> wms_service_info]
        ELSE [ok |-> FALSE]

search_result(env, base, layer_id, time_ms) ==
    LET sets == make_param_sets(layer_id)
        probed == [k \in 1..NumParamSets |-> with_time(sets[k], k, time_ms)]
        accepted == {k \in 1..NumParamSets : test_image_url(env.search[k])}
    IN  IF accepted # {}
        THEN LET k == CHOOSE c \in accepted : \A j \in accepted : c <= j
             IN  [set |-> k, verified |-> TRUE, url |-> export_url(base, probed[k])]
        ELSE [set |-> FallbackSet, verified |-> FALSE,
              url |-> fallback_url(base, probed, time_ms)]

main_run(env, now) ==
    LET e == resolve_endpoint(env)
    IN  IF ~e.ok THEN [status |-> "failure"]
        ELSE LET t == get_latest_time(e.info, now)
                 l == select_layer(e.info)
             IN  IF t.raised \/ l.kind = "raise" THEN [status |-> "failure"]
                 ELSE LET r == search_result(env, e.base, l.v, t.v)
                      IN  [status |-> "success",
                           candidate |-> e.candidate,
                           info |-> e.info,
                           set |-> r.set,
                           image_url |-> r.url,
                           overlay |-> create_kml(r.url, t.v, service_name_of(e.info))]

RunMetadata ==
    { NetworkError,
      HttpReply(200, Descriptor(Name(<<"NDFD_temp">>),
                                Extent(<<Num(0), Num(1000000), Num(500000)>>),
                                List(<<Layer(Name(<<"Temperature">>), IdVal(1), Absent)>>))),
      HttpReply(200, Descriptor(Absent, Absent, Absent)),
      HttpReply(200, Descriptor(Absent, Absent,
                                List(<<Layer(Null, IdVal(3), Absent)>>))) }

RunProbes == {Timeout, Response(200, <<"image", "/", "png">>)}

RunEnvs ==
    [meta : [1..Len(NDFD_ENDPOINTS) -> RunMetadata],
     wms : RunProbes,
     search : [1..NumParamSets -> RunProbes]]

InitRuns ==
    /\ MainIdle
    /\ \E env \in RunEnvs, now_a \in Nows, now_b \in Nows :
         fn = [name |-> "main", env |-> env, now_a |-> now_a, now_b |-> now_b]
    /\ ret = None

\* two runs of main against the same answers, each with its own clock
CallMainTwice ==
    /\ fn.name = "main"
    /\ ret = None
    /\ ret' = [kind |-> "value", a |-> main_run(fn.env, fn.now_a),
               b |-> main_run(fn.env, fn.now_b)]
    /\ UNCHANGED <<mainVars, fn>>

NextRuns == CallMainTwice

SpecRuns == InitRuns /\ [][NextRuns]_vars

(***************************************************************************)
(* Properties.                                                             *)
(***************************************************************************)
\* the address of endpoint candidate k, in priority order
CandidateAddress(k) == IF k <= Len(NDFD_ENDPOINTS) THEN NDFD_ENDPOINTS[k] ELSE wms_url

Resolved == pc \in {"time", "layer", "search", "final", "write_overlay",
                    "write_pointer", "done"}

\* C1: the endpoint returned by get_working_endpoint is the first candidate
\* in priority order whose query succeeds: the candidates are queried in
\* order, each once, every candidate before the winner failed, and no
\* candidate after the winner is queried.
C1_FirstWorkingEndpointWins ==
    /\ \A k \in 1..Len(queried) : queried[k].candidate = k
    /\ \A k \in 1..Len(queried) : queried[k].working => k = Len(queried)
    /\ Resolved => /\ queried # <<>>
                   /\ queried[Len(queried)].working
                   /\ base_url = CandidateAddress(Len(queried))
    /\ (queried # <<>> /\ queried[Len(queried)].working) => Resolved \/ pc = "failed"

C1_Witness ==
    /\ pc = "time"
    /\ Len(queried) = 3
    /\ ~queried[1].working /\ ~queried[2].working /\ queried[3].working
    /\ base_url = NDFD_ENDPOINTS[3]

\* a global time extent [start, end, step] whose entries are numbers in range
GlobalExtent3(info) ==
    /\ info.timeInfo.kind = "dict"
    /\ info.timeInfo.timeExtent.kind = "list"
    /\ Len(info.timeInfo.timeExtent.items) = 3
    /\ \A k \in 1..3 : info.timeInfo.timeExtent.items[k].kind = "num"

\* a global time extent of at least two entries whose end is a number in range
GlobalExtentUsable(info) ==
    /\ info.timeInfo.kind = "dict"
    /\ info.timeInfo.timeExtent.kind = "list"
    /\ Len(info.timeInfo.timeExtent.items) >= 2
    /\ info.timeInfo.timeExtent.items[2].kind = "num"

\* a number of thousandths is a whole number
Whole(val) == val.us % 1000 = 0

SetUrl(k) ==
    export_url(base_url, with_time(make_param_sets(temp_layer_id)[k], k, latest_time_ms))

SearchReturned == pc \in {"final", "write_overlay", "write_pointer", "done"}

\* C3: when parameter set j is the first one accepted, build_image_url
\* returns exactly the URL probed for set j, the sets before j were probed
\* once each in list order, and no set after j is probed.
C3_FirstAcceptedSetWins ==
    /\ \A k \in 1..Len(probes) : probes[k].set = k /\ probes[k].url = SetUrl(k)
    /\ \A k \in 1..Len(probes) : probes[k].ok => k = Len(probes)
    /\ (probes # <<>> /\ probes[Len(probes)].ok) =>
           /\ SearchReturned
           /\ image_url = probes[Len(probes)].url
    /\ (SearchReturned /\ probes # <<>> /\ ~probes[Len(probes)].ok) =>
           Len(probes) = NumParamSets

C3_Witness ==
    /\ pc = "done"
    /\ Len(probes) = 2
    /\ ~probes[1].ok /\ probes[2].ok
    /\ image_url = probes[2].url
    /\ image_url # probes[1].url

AllRejected ==
    /\ Len(probes) = NumParamSets
    /\ \A k \in 1..Len(probes) : ~probes[k].ok

ImageType(ct) == ct # <<>> /\ LowerChunk(ct[1]) = "image"

\* C5 (as claimed): the probe accepts if and only if the status is in
\* 200-299 and the content type is an image media type.
C5_AcceptsOnly2xxImage ==
    Called =>
        (ret.v <=> /\ fn.resp.kind = "resp"
                   /\ fn.resp.status \in 200..299
                   /\ ImageType(fn.resp.ctype))

\* C5 (amended): test_image_url returns True if and only if the status is
\* exactly 200 and the content type either contains "image" or contains
\* neither "json" nor "text" (a missing content type included); every other
\* response, and a timeout or connection failure, gives False.
C5_Accepts200UnlessErrorPayload ==
    Called =>
        (ret.v <=> /\ fn.resp.kind = "resp"
                   /\ fn.resp.status = 200
                   /\ LET ct == lower(fn.resp.ctype)
                      IN  \/ Contains(ct, "image")
                          \/ ~Contains(ct, "json") /\ ~Contains(ct, "text"))

C5_Witness ==
    /\ Called
    /\ fn.resp = Response(200, <<>>)
    /\ ret.v

AllCandidatesFailed ==
    /\ Len(queried) = NumCandidates
    /\ \A k \in 1..Len(queried) : ~queried[k].working

\* C6: when every endpoint candidate fails, the run aborts with a nonzero
\* completion status, and there is no time resolution, no parameter-set
\* probe and no write of either output file.
C6_NoEndpointAborts ==
    AllCandidatesFailed =>
        /\ pc = "failed"
        /\ status = "failure"
        /\ time_calls = 0
        /\ probes = <<>>
        /\ final_probe = <<>>
        /\ files = <<>>
        /\ ~ENABLED Next

C6_Witness ==
    /\ AllCandidatesFailed
    /\ status = "failure"

\* C7 (as claimed): once an endpoint candidate has been resolved the run
\* does not fail, whatever the descriptor holds: every run that resolved an
\* endpoint ends with status zero and both artifacts.
C7_ResolvedRunSucceeds ==
    (base_url # <<>>) => status # "failure"

\* no time extent in the descriptor nor in any of its layers
HasNoExtent(ti) ==
    \/ ti.kind \in {"absent", "null"}
    \/ ti.kind = "dict" /\ ti.timeExtent.kind = "absent"

NoExtentAnywhere(info) ==
    /\ HasNoExtent(info.timeInfo)
    /\ \A k \in 1..Len(layers_of(info)) : HasNoExtent(layers_of(info)[k].timeInfo)

\* the time metadata cannot be used: the global timeInfo is no dict, or its
\* extent is no list, or its end is no number a datetime can hold
GlobalUnusable(info) ==
    \/ info.timeInfo.kind = "scalar"
    \/ info.timeInfo.kind = "dict" /\ info.timeInfo.timeExtent.kind \in {"null", "scalar"}
    \/ /\ info.timeInfo.kind = "dict"
       /\ info.timeInfo.timeExtent.kind = "list"
       /\ Len(info.timeInfo.timeExtent.items) >= 2
       /\ info.timeInfo.timeExtent.items[2].kind # "num"

\* the current instant in whole milliseconds
IsNow(v, now) == v \div 1000 = now.sec /\ v % 1000 = now.us \div 1000

\* C8: get_latest_time never raises: for every descriptor it returns an
\* integer, and it is the current time whenever the time metadata is
\* missing or cannot be used.
C8_NeverRaises ==
    Called =>
        /\ ~ret.raised
        /\ ret.v \in Int
        /\ (GlobalUnusable(fn.info) \/ NoExtentAnywhere(fn.info)) => IsNow(ret.v, fn.now)

C8_Witness ==
    /\ Called
    /\ fn.info.timeInfo = Extent(<<Num(0), NonNumeric>>)
    /\ IsNow(ret.v, fn.now)

HourMs == 60 * 60 * 1000

C10_HrefRoundTrip ==
    Called =>
        LET parsed == parse_text(ret.doc.href)
        IN  parsed.ok /\ parsed.text = fn.url

C10_Witness ==
    /\ Called
    /\ fn.url = <<"x", "&", "<", ">">>
    /\ ret.doc.href = <<"x", "&", "amp", ";", "&", "lt", ";", "&", "gt", ";">>

\* the document is well-formed: the character data of every element that
\* is filled in parses
WellFormed(doc) ==
    /\ parse_text(doc.name).ok
    /\ parse_text(doc.description).ok
    /\ parse_text(doc.overlay_description).ok
    /\ parse_text(doc.href).ok

Overlays == {files[k].content : k \in {n \in 1..Len(files) : files[n].name = OUTPUT_KML}}

\* C11 (as claimed): every overlay document made by create_kml is
\* well-formed markup, whatever the image URL and the service display name
\* (mapName of the remote descriptor) hold.
C11_OverlayWellFormed ==
    \A doc \in Overlays : WellFormed(doc)

\* C12: in every run that writes an overlay artifact its bounding box is
\* exactly the CONUS extent (north 55, south 20, east -60, west -130),
\* whichever endpoint and parameter set won, the Web Mercator set included.
C12_OverlayBoxIsConus ==
    \A doc \in Overlays :
        doc.north = 55 /\ doc.south = 20 /\ doc.east = -60 /\ doc.west = -130

C12_Witness ==
    /\ pc = "done"
    /\ Len(probes) = NumParamSets
    /\ probes[NumParamSets].ok
    /\ Contains(image_url, "3857")
    /\ \E doc \in Overlays : doc.north = 55 /\ parse_text(doc.href).text = image_url

\* the URL of parameter set k against the endpoint candidate that won
WinnerSetUrl(k) ==
    CandidateAddress(Len(queried)) \o <<"/export", "?">>
        \o urlencode(clean(with_time(make_param_sets(temp_layer_id)[k], k, latest_time_ms)))

\* C13: every run either fails, or ends with exactly one endpoint candidate
\* and exactly one parameter set selected: the image reference published is
\* the URL of one single parameter set against the one resolved endpoint.
C13_OneEndpointOneSet ==
    /\ status = "failure" <=> pc = "failed"
    /\ status = "success" <=> pc = "done"
    /\ pc = "failed" => Overlays = {}
    /\ pc = "done" =>
          /\ status = "success"
          /\ Cardinality({k \in 1..Len(queried) : queried[k].working}) = 1
          /\ Cardinality({k \in 1..NumParamSets : image_url = WinnerSetUrl(k)}) = 1
          /\ Cardinality(Overlays) = 1
          /\ \A doc \in Overlays : parse_text(doc.href) = [ok |-> TRUE, text |-> image_url]

C13_Witness ==
    /\ pc = "done"
    /\ Len(queried) = 2
    /\ AllRejected
    /\ image_url = WinnerSetUrl(FallbackSet)

C15_CompletedRunHasValidOverlay ==
    pc = "done" => \A doc \in Overlays : WellFormed(doc)

\* a timeInfo value of the documented shape: absent, or a dict whose
\* timeExtent is absent or a list of numbers
TimeWellFormed(ti) ==
    \/ ti.kind = "absent"
    \/ /\ ti.kind = "dict"
       /\ \/ ti.timeExtent.kind = "absent"
          \/ /\ ti.timeExtent.kind = "list"
             /\ \A k \in 1..Len(ti.timeExtent.items) : ti.timeExtent.items[k].kind = "num"

\* the layer has its own time extent of at least two entries
LayerExtentUsable(layer) ==
    /\ layer.timeInfo.kind = "dict"
    /\ layer.timeInfo.timeExtent.kind = "list"
    /\ Len(layer.timeInfo.timeExtent.items) >= 2

\* C16 (as claimed): get_latest_time applies its sources in strict
\* precedence: a usable global time extent decides the result; otherwise
\* the first layer in list order with a time extent of at least two entries
\* decides it; the current time is used only when neither exists.
C16_StrictPrecedence ==
    (/\ Called
     /\ TimeWellFormed(fn.info.timeInfo)
     /\ \A k \in 1..Len(layers_of(fn.info)) : TimeWellFormed(layers_of(fn.info)[k].timeInfo)) =>
        LET ls == layers_of(fn.info)
            timed == {k \in 1..Len(ls) : LayerExtentUsable(ls[k])}
        IN  IF GlobalExtentUsable(fn.info)
            THEN ret.v = int(fn.info.timeInfo.timeExtent.items[2])
            ELSE IF timed # {}
            THEN LET k == CHOOSE c \in timed : \A j \in timed : c <= j
                 IN  ret.v = int(ls[k].timeInfo.timeExtent.items[2])
            ELSE IsNow(ret.v, fn.now)

\* the chunks of run occur in text, next to each other and in order
HasRun(text, run) ==
    \E k \in 1..(Len(text) - Len(run) + 1) : SubSeq(text, k, k + Len(run) - 1) = run

\* a GetMap request at the WMS base address: the address, one "?" and a
\* query string with request=GetMap
IsWmsGetMap(url) ==
    LET address == WMS_ENDPOINTS[1].url
    IN  /\ Len(url) > Len(address)
        /\ SubSeq(url, 1, Len(address) + 1) = address \o <<"?">>
        /\ Cardinality({k \in 1..Len(url) : url[k] = "?"}) = 1
        /\ HasRun(url, <<"request", "=", "GetMap">>)
        /\ ~Contains(url, "/export")

WmsResolved == Resolved /\ Len(queried) = NumCandidates

\* C17 (as claimed): when the WMS endpoint is the one resolved, every URL
\* the parameter search probes, and the image reference published in the
\* overlay, is a GetMap request at the WMS base address.
C17_WmsRunProbesGetMap ==
    WmsResolved =>
        /\ \A k \in 1..Len(probes) : IsWmsGetMap(probes[k].url)
        /\ SearchReturned => IsWmsGetMap(image_url)
        /\ \A doc \in Overlays :
              parse_text(doc.href).ok /\ IsWmsGetMap(parse_text(doc.href).text)

\* the URL has a time parameter / the value of its time parameter
HasTime(url) == Contains(url, "time")
TimeIs(url, time_ms) == HasRun(url, <<"&", "time", "=", ToString(time_ms)>>)

\* C18: the time parameter is attached to a probed URL exactly when the
\* parameter set is one of the first three and the snapshot time is
\* greater than zero; the fourth set never carries one; a time parameter in
\* the published image reference has the value of the one snapshot time of
\* the run, the time shown in the overlay title.
C18_TimeOnFirstThreeSets ==
    /\ \A k \in 1..Len(probes) :
          /\ HasTime(probes[k].url) <=> (probes[k].set <= 3 /\ latest_time_ms > 0)
          /\ HasTime(probes[k].url) => TimeIs(probes[k].url, latest_time_ms)
          /\ probes[k].set = 4 => ~HasTime(probes[k].url)
    /\ (SearchReturned /\ HasTime(image_url)) => TimeIs(image_url, latest_time_ms)
    /\ \A doc \in Overlays :
          /\ doc.name = <<"CONUS Temperature - ">> \o strftime(latest_time_ms)
          /\ HasTime(parse_text(doc.href).text) =>
                TimeIs(parse_text(doc.href).text, latest_time_ms)
    /\ time_calls <= 1

C18_Witness ==
    /\ pc = "done"
    /\ Len(probes) = NumParamSets
    /\ latest_time_ms = 1000
    /\ probes[NumParamSets].ok
    /\ TimeIs(probes[3].url, 1000)
    /\ ~HasTime(image_url)

\* the network calls and the writes made so far are within the bounds
CallsBounded ==
    /\ Len(queried) <= NumCandidates
    /\ \A k \in 1..Len(queried) : queried[k].candidate = k
    /\ Cardinality({k \in 1..Len(queried) : queried[k].candidate <= Len(NDFD_ENDPOINTS)}) <= 3
    /\ Cardinality({k \in 1..Len(queried) : queried[k].candidate > Len(NDFD_ENDPOINTS)}) <= 1
    /\ Len(probes) <= 4
    /\ \A k \in 1..Len(probes) : probes[k].set = k
    /\ Len(final_probe) <= 1
    /\ pc \in {"write_overlay", "write_pointer", "done"} => Len(final_probe) = 1
    /\ Len(files) <= 2
    /\ files # <<>> =>
          /\ files[1].name = OUTPUT_KML
          /\ SearchReturned
          /\ Len(final_probe) = 1
          /\ files[1].content.href = escape(image_url)
    /\ Len(files) = 2 => files[2].name = NETWORK_KML
    /\ pc = "done" => Len(files) = 2

\* the most steps (network calls, pure stages, writes) a run can still take
StepsLeft ==
    CASE pc = "resolve" -> 14 - Len(queried)
      [] pc = "wms" -> 11
      [] pc = "time" -> 10
      [] pc = "layer" -> 9
      [] pc = "search" -> 9 - i
      [] pc = "final" -> 3
      [] pc = "write_overlay" -> 2
      [] pc = "write_pointer" -> 1
      [] OTHER -> 0

\* C19: every run terminates after a bounded number of network calls: at
\* most three MapServer metadata queries, at most one WMS probe, at most
\* four parameter-set probes in the search and exactly one further probe of
\* the chosen URL by main; no candidate or parameter set is probed twice;
\* the overlay file is written before the pointer file and only after the
\* search has returned.
C19_BoundedCallsThenEnd ==
    /\ [] CallsBounded
    /\ [] (StepsLeft >= 0 /\ (StepsLeft = 0 <=> pc \in {"done", "failed"}))
    /\ [] (Len(queried) + Len(probes) + Len(final_probe) <= 9)
    /\ [][StepsLeft' < StepsLeft]_vars

C19_Witness ==
    /\ pc = "done"
    /\ Len(queried) = NumCandidates
    /\ Len(probes) = 4
    /\ Len(final_probe) = 1
    /\ Len(files) = 2

====
